---- MODULE Spec2Model ----
(***************************************************************************)
(* Weather Dashboard (src/main.py): WeatherApp's three HTTP operations,    *)
(* its two printers, the interactive day-count prompt and main's session.  *)
(*                                                                         *)
(* Representation.  Text typed by the user (the --city argument and the    *)
(* lines read by input()) is a sequence of one-character strings, so that  *)
(* str.strip() and int() are computed character by character.  Text that   *)
(* is only concatenated and printed is a TLA+ string.  A JSON object is a  *)
(* function whose DOMAIN is the set of keys present; a JSON scalar or list *)
(* is a tagged record [t |-> ..., v |-> ...].  Temperatures, wind speeds   *)
(* and precipitation are integers counting tenths.                         *)
(***************************************************************************)
EXTENDS Integers, Sequences, FiniteSets, TLC

VARIABLES
    entry,          \* the function the process was started on
    pc,             \* position in that function
    argCity,        \* args.city      [given, val]
    argForecast,    \* args.forecast  [given, val]
    city_input,     \* main's local city_input
    forecast_days,  \* main's local forecast_days
    consumed,       \* the lines input() has returned to the day-count prompt
    callArg,        \* the argument of the operation called (direct calls)
    loc,            \* (lat, lon, resolved, cc) as returned by geocode_city
    cw,             \* the current_weather section held by main
    daily,          \* the daily section held by main
    resp,           \* the outcome of the latest requests.get
    http,           \* the HTTP requests issued so far, in order
    dfCalls,        \* the days argument of every get_daily_forecast call
    out,            \* the print() calls made so far, in order
    exc,            \* the exception propagating to main's handlers
    result          \* the outcome of a direct call

vars == <<entry, pc, argCity, argForecast, city_input, forecast_days, consumed,
          callArg, loc, cw, daily, resp, http, dfCalls, out, exc, result>>

(***************************************************************************)
(* Bounds of the model.                                                    *)
(***************************************************************************)
MaxPrompts == 3     \* lines the day-count prompt may read in one run
MaxDays == 2        \* longest list in a daily section

(***************************************************************************)
(* Program constants.                                                      *)
(***************************************************************************)
MinForecastDays == 1
MaxForecastDays == 16
NoForecast == 0
DefaultCode == 0 - 999
DescWidth == 28
TempWidth == 5
PrecWidth == 4
WindWidth == 4
DirWidth == 3

GEOCODE_URL == "https://geocoding-api.open-meteo.com/v1/search"
WEATHER_URL == "https://api.open-meteo.com/v1/forecast"

(***************************************************************************)
(* Python values.                                                          *)
(***************************************************************************)
None == [t |-> "null"]
JStr(s) == [t |-> "str", v |-> s]
JNum(n) == [t |-> "num", v |-> n]
JFloat(x) == [t |-> "float", v |-> x]      \* x counts tenths
JArr(s) == [t |-> "arr", v |-> s]

\* bool(x) of a JSON scalar or list
Truthy(j) ==
    CASE j.t = "null" -> FALSE
      [] j.t = "str" -> j.v # ""
      [] j.t = "num" -> j.v # 0
      [] j.t = "float" -> j.v # 0
      [] j.t = "arr" -> Len(j.v) > 0

\* dict.get(key): None when the key is absent
Get(d, key) == IF key \in DOMAIN d THEN d[key] ELSE None


Ret(v) == [kind |-> "return", val |-> v]
Raise(cls, msg) == [kind |-> "raise", cls |-> cls, msg |-> msg]
NoExc == [kind |-> "none"]

(***************************************************************************)
(* str.strip() and int() on typed text.                                    *)
(***************************************************************************)
Whitespace == {" ", "\t"}
Digits == {"0", "1", "2", "3", "4", "5", "6", "7", "8", "9"}

DigitVal(c) ==
    CASE c = "0" -> 0 [] c = "1" -> 1 [] c = "2" -> 2 [] c = "3" -> 3
      [] c = "4" -> 4 [] c = "5" -> 5 [] c = "6" -> 6 [] c = "7" -> 7
      [] c = "8" -> 8 [] c = "9" -> 9

RECURSIVE LStrip(_)
LStrip(s) == IF s # <<>> /\ Head(s) \in Whitespace THEN LStrip(Tail(s)) ELSE s

RECURSIVE RStrip(_)
RStrip(s) ==
    IF s # <<>> /\ s[Len(s)] \in Whitespace
    THEN RStrip(SubSeq(s, 1, Len(s) - 1)) ELSE s

Strip(s) == RStrip(LStrip(s))

\* int(s): an optional sign, then digits, single underscores between digits
Unsigned(s) == IF s # <<>> /\ Head(s) \in {"+", "-"} THEN Tail(s) ELSE s

IsIntLiteral(s) ==
    LET b == Unsigned(Strip(s)) IN
    /\ b # <<>>
    /\ b[1] \in Digits
    /\ b[Len(b)] \in Digits
    /\ \A i \in 1..Len(b) :
          \/ b[i] \in Digits
          \/ b[i] = "_" /\ b[i - 1] \in Digits /\ b[i + 1] \in Digits

RECURSIVE Magnitude(_)
Magnitude(b) ==
    IF b = <<>> THEN 0
    ELSE LET last == b[Len(b)]
             init == SubSeq(b, 1, Len(b) - 1)
         IN IF last = "_" THEN Magnitude(init)
            ELSE 10 * Magnitude(init) + DigitVal(last)

IntOf(s) ==
    LET t == Strip(s)
        m == Magnitude(Unsigned(t))
    IN IF t # <<>> /\ Head(t) = "-" THEN 0 - m ELSE m

(***************************************************************************)
(* Number formatting of the printers.                                      *)
(***************************************************************************)
Abs(x) == IF x < 0 THEN 0 - x ELSE x

RECURSIVE PadLeft(_, _)
PadLeft(s, w) == IF Len(s) < w THEN PadLeft(" " \o s, w) ELSE s

RECURSIVE PadRight(_, _)
PadRight(s, w) == IF Len(s) < w THEN PadRight(s \o " ", w) ELSE s

\* format(x, ".1f") of a value given in tenths
Fixed1(x) ==
    (IF x < 0 THEN "-" ELSE "") \o ToString(Abs(x) \div 10) \o "."
        \o ToString(Abs(x) % 10)

\* format(x, ".0f") of a value given in tenths: nearest integer, ties to even
Fixed0(x) ==
    LET q == Abs(x) \div 10
        r == Abs(x) % 10
        n == IF r > 5 \/ (r = 5 /\ q % 2 = 1) THEN q + 1 ELSE q
    IN (IF x < 0 THEN "-" ELSE "") \o ToString(n)

\* format(x, ".4f") of a value given in tenths
Fixed4(x) == Fixed1(x) \o "000"

\* str(x) as an f-string field renders it
Str(j) ==
    CASE j.t = "null" -> "None"
      [] j.t = "str" -> j.v
      [] j.t = "num" -> ToString(j.v)
      [] j.t = "float" -> Fixed1(j.v)

(***************************************************************************)
(* WEATHER_CODE_MAP and describe_code.                                     *)
(***************************************************************************)
WEATHER_CODE_MAP ==
    (0 :> "Clear sky") @@
    (1 :> "Mainly clear") @@ (2 :> "Partly cloudy") @@ (3 :> "Overcast") @@
    (45 :> "Fog") @@ (48 :> "Depositing rime fog") @@
    (51 :> "Light drizzle") @@ (53 :> "Moderate drizzle") @@
    (55 :> "Dense drizzle") @@
    (56 :> "Light freezing drizzle") @@ (57 :> "Dense freezing drizzle") @@
    (61 :> "Slight rain") @@ (63 :> "Moderate rain") @@ (65 :> "Heavy rain") @@
    (66 :> "Light freezing rain") @@ (67 :> "Heavy freezing rain") @@
    (71 :> "Slight snow") @@ (73 :> "Moderate snow") @@ (75 :> "Heavy snow") @@
    (77 :> "Snow grains") @@
    (80 :> "Slight rain showers") @@ (81 :> "Moderate rain showers") @@
    (82 :> "Violent rain showers") @@
    (85 :> "Slight snow showers") @@ (86 :> "Heavy snow showers") @@
    (95 :> "Thunderstorm") @@ (96 :> "Thunderstorm (slight hail)") @@
    (99 :> "Thunderstorm (heavy hail)")

describe_code(code) ==
    IF code \in DOMAIN WEATHER_CODE_MAP THEN WEATHER_CODE_MAP[code]
    ELSE "Code " \o ToString(code)

(***************************************************************************)
(* requests.get, Response.raise_for_status and Response.json.              *)
(* An outcome of requests.get is either an exception of the library or a   *)
(* response [status, body]; a body is JSON text (its decoded object) or    *)
(* not JSON at all.                                                        *)
(***************************************************************************)
Failed(cls) == [k |-> "raise", cls |-> cls]
Response(status, body) == [k |-> "response", status |-> status, body |-> body]
Json(data) == [json |-> TRUE, data |-> data]
NotJson == [json |-> FALSE]
NoResp == [k |-> "none"]

\* r = requests.get(...); r.raise_for_status(); data = r.json()
Fetch(o) ==
    IF o.k = "raise" THEN Raise(o.cls, "")
    ELSE IF o.status >= 400 /\ o.status < 600
         THEN Raise("HTTPError", ToString(o.status) \o " Error")
    ELSE IF ~o.body.json
         THEN Raise("JSONDecodeError", "Expecting value")
    ELSE Ret(o.body.data)

GeocodeRequest(city) ==
    [url |-> GEOCODE_URL,
     params |-> [name |-> city, count |-> 1, language |-> "en",
                 format |-> "json"]]

CurrentRequest(lat, lon) ==
    [url |-> WEATHER_URL,
     params |-> [latitude |-> lat, longitude |-> lon,
                 current_weather |-> "true", timezone |-> "auto"]]

DailyFields ==
    <<"weathercode", "temperature_2m_max", "temperature_2m_min",
      "precipitation_sum", "windspeed_10m_max", "winddirection_10m_dominant">>

DailyRequest(lat, lon, days) ==
    [url |-> WEATHER_URL,
     params |-> [latitude |-> lat, longitude |-> lon, daily |-> DailyFields,
                 forecast_days |-> days, timezone |-> "auto"]]

\* What an operation did: the requests it issued and how it ended.
Did(reqs, outcome) == [http |-> reqs, outcome |-> outcome]

(***************************************************************************)
(* WeatherApp.geocode_city                                                 *)
(***************************************************************************)
\* results = data.get("results") or []
ResultsOf(data) ==
    IF Truthy(Get(data, "results")) THEN Get(data, "results").v ELSE <<>>

DisplayName_KeyPresent(top) ==
    IF "admin1" \in DOMAIN top
    THEN Str(Get(top, "name")) \o ", " \o Str(top["admin1"])
    ELSE Str(Get(top, "name"))

\* the name built from the top entry
DisplayName(top) ==
    IF Truthy(Get(top, "admin1"))
    THEN Str(Get(top, "name")) \o ", " \o Str(top["admin1"])
    ELSE Str(Get(top, "name"))

geocode_city(city, o) ==
    LET f == Fetch(o)
        results == ResultsOf(f.val)
        top == results[1]
        outcome ==
            IF f.kind = "raise" THEN f
            ELSE IF results = <<>>
                 THEN Raise("ValueError", "City '{city}' not found.")
            ELSE IF "latitude" \notin DOMAIN top
                 THEN Raise("KeyError", "'latitude'")
            ELSE IF "longitude" \notin DOMAIN top
                 THEN Raise("KeyError", "'longitude'")
            ELSE Ret([lat |-> top["latitude"].v, lon |-> top["longitude"].v,
                      name |-> DisplayName(top),
                      cc |-> Get(top, "country_code")])
    IN Did(<<GeocodeRequest(city)>>, outcome)

(***************************************************************************)
(* WeatherApp.get_current_weather                                          *)
(***************************************************************************)
get_current_weather_WholeBody(lat, lon, o) ==
    LET f == Fetch(o)
        outcome ==
            IF f.kind = "raise" THEN f
            ELSE IF "current_weather" \notin DOMAIN f.val
                 THEN Raise("ValueError",
                            "Weather data missing from API response.")
            ELSE Ret(f.val)
    IN Did(<<CurrentRequest(lat, lon)>>, outcome)

get_current_weather(lat, lon, o) ==
    LET f == Fetch(o)
        outcome ==
            IF f.kind = "raise" THEN f
            ELSE IF "current_weather" \notin DOMAIN f.val
                 THEN Raise("ValueError",
                            "Weather data missing from API response.")
            ELSE Ret(f.val["current_weather"])
    IN Did(<<CurrentRequest(lat, lon)>>, outcome)

(***************************************************************************)
(* WeatherApp.get_daily_forecast                                           *)
(***************************************************************************)
DaysInBounds_OffByOne(days) ==
    ~(days < MinForecastDays \/ days >= MaxForecastDays)

DaysInBounds(days) == ~(days < MinForecastDays \/ days > MaxForecastDays)

get_daily_forecast(lat, lon, days, o) ==
    LET f == Fetch(o)
        outcome ==
            IF f.kind = "raise" THEN f
            ELSE IF "daily" \notin DOMAIN f.val
                 THEN Raise("ValueError",
                            "Daily forecast missing from API response.")
            ELSE Ret(f.val["daily"])
    IN IF ~DaysInBounds(days)
       THEN Did(<<>>, Raise("ValueError",
                            "Forecast days must be between 1 and 16."))
       ELSE Did(<<DailyRequest(lat, lon, days)>>, outcome)

(***************************************************************************)
(* WeatherApp.print_current and WeatherApp.print_forecast.                 *)
(* A printer yields the print() calls it made, each a tuple of the pieces  *)
(* of the line, and how it ended.                                          *)
(***************************************************************************)
Printed(lines, outcome) == [out |-> lines, outcome |-> outcome]

CurrentHeader == <<"\n--- Current Weather ---">>
ForecastHeader == <<"\n--- Daily Forecast ---">>

print_current(city_label, lat, lon, c) ==
    LET temp == Get(c, "temperature")
        wind == Get(c, "windspeed")
        code == IF "weathercode" \in DOMAIN c THEN c["weathercode"]
                ELSE JNum(DefaultCode)
        wcode == IF code.t = "float"
                 THEN (IF code.v < 0 THEN 0 - (Abs(code.v) \div 10)
                       ELSE code.v \div 10)
                 ELSE code.v
        desc == describe_code(wcode)
    IN IF code.t \notin {"num", "float"}
       THEN Printed(<<>>, Raise("TypeError", "int() argument"))
       ELSE Printed(<<CurrentHeader,
                      <<"Location   : ", city_label>>,
                      <<"Latitude   : ", Fixed4(lat), ", Longitude: ",
                        Fixed4(lon)>>,
                      <<"Temperature: ", Str(temp), " C">>,
                      <<"Windspeed  : ", Str(wind), " km/h">>,
                      <<"Condition  : ", desc>> >>, Ret(None))

\* daily.get(key, [])
ListOf(d, key) == IF key \in DOMAIN d THEN d[key] ELSE <<>>

\* the line print_forecast prints for index i (1-based here, 0-based there)
DayLine(d, i) ==
    <<ListOf(d, "time")[i], " | ",
      PadRight(describe_code(ListOf(d, "weathercode")[i]), DescWidth), " | ",
      "min ", PadLeft(Fixed1(ListOf(d, "temperature_2m_min")[i]), TempWidth),
      "C  ",
      "max ", PadLeft(Fixed1(ListOf(d, "temperature_2m_max")[i]), TempWidth),
      "C  ",
      "prec ", PadLeft(Fixed1(ListOf(d, "precipitation_sum")[i]), PrecWidth),
      " mm  ",
      "wind ", PadLeft(Fixed0(ListOf(d, "windspeed_10m_max")[i]), WindWidth),
      " km/h ",
      "dir ",
      PadLeft(ToString(ListOf(d, "winddirection_10m_dominant")[i]), DirWidth)>>

\* every list the loop body indexes has an element i
Indexable(d, i) ==
    \A n \in 1..Len(DailyFields) : i <= Len(ListOf(d, DailyFields[n]))

ForecastRange_OneShort(d) == Len(ListOf(d, "time")) - 1

\* the number of iterations of the loop: len(dates)
ForecastRange(d) == Len(ListOf(d, "time"))

\* iterations i..n of the loop, stopping at the first IndexError
RECURSIVE ForecastLoop(_, _, _)
ForecastLoop(d, i, n) ==
    IF i > n THEN Printed(<<>>, Ret(None))
    ELSE IF ~Indexable(d, i)
         THEN Printed(<<>>, Raise("IndexError", "list index out of range"))
    ELSE LET rest == ForecastLoop(d, i + 1, n)
         IN Printed(<<DayLine(d, i)>> \o rest.out, rest.outcome)

print_forecast(d) ==
    LET loop == ForecastLoop(d, 1, ForecastRange(d))
    IN Printed(<<ForecastHeader>> \o loop.out, loop.outcome)

(***************************************************************************)
(* ask_forecast_days_interactively: one round of its loop on a line read.  *)
(***************************************************************************)
\* input(...).strip() or "0"
DaysStr(line) == IF Strip(line) # <<>> THEN Strip(line) ELSE <<"0">>

AskAccepts_WideRange(line) ==
    /\ IsIntLiteral(DaysStr(line))
    /\ NoForecast <= IntOf(DaysStr(line))
    /\ IntOf(DaysStr(line)) <= MaxForecastDays + 1

\* the round returns (TRUE) or prints the reminder and loops (FALSE)
AskAccepts(line) ==
    /\ IsIntLiteral(DaysStr(line))
    /\ NoForecast <= IntOf(DaysStr(line))
    /\ IntOf(DaysStr(line)) <= MaxForecastDays

AskReminder == <<"Please enter an integer between 0 and 16.">>

(***************************************************************************)
(* The exception classes main's handlers name, and the classes each        *)
(* exception raised in a session is an instance of.                        *)
(***************************************************************************)
Handlers ==
    <<"HTTPError", "ConnectionError", "Timeout", "ValueError",
      "KeyboardInterrupt", "Exception">>

ExcBases(cls) ==
    CASE cls = "HTTPError" -> {"HTTPError", "RequestException", "Exception"}
      [] cls = "ConnectionError" ->
            {"ConnectionError", "RequestException", "Exception"}
      [] cls = "ConnectTimeout" ->
            {"ConnectTimeout", "ConnectionError", "Timeout",
             "RequestException", "Exception"}
      [] cls = "ReadTimeout" ->
            {"ReadTimeout", "Timeout", "RequestException", "Exception"}
      [] cls = "JSONDecodeError" ->
            {"JSONDecodeError", "ValueError", "RequestException", "Exception"}
      [] cls = "KeyboardInterrupt" -> {"KeyboardInterrupt"}
      [] OTHER -> {cls, "Exception"}

HandlerFor_NoCatchAll(cls) ==
    IF \E i \in 1..(Len(Handlers) - 1) : Handlers[i] \in ExcBases(cls)
    THEN CHOOSE i \in 1..(Len(Handlers) - 1) :
            /\ Handlers[i] \in ExcBases(cls)
            /\ \A j \in 1..(i - 1) : Handlers[j] \notin ExcBases(cls)
    ELSE 0

\* the first except clause that matches, 0 when none does
HandlerFor(cls) ==
    IF \E i \in 1..Len(Handlers) : Handlers[i] \in ExcBases(cls)
    THEN CHOOSE i \in 1..Len(Handlers) :
            /\ Handlers[i] \in ExcBases(cls)
            /\ \A j \in 1..(i - 1) : Handlers[j] \notin ExcBases(cls)
    ELSE 0

\* what the matching clause prints
Diagnostic(e) ==
    LET h == HandlerFor(e.cls) IN
    CASE h = 0 -> <<"Traceback (most recent call last):", e.cls>>
      [] Handlers[h] = "HTTPError" -> <<"HTTP error from API:", e.msg>>
      [] Handlers[h] = "ConnectionError" ->
            <<"Network error: please check your internet connection.">>
      [] Handlers[h] = "Timeout" -> <<"Request timed out. Try again.">>
      [] Handlers[h] = "ValueError" -> <<"Error:", e.msg>>
      [] Handlers[h] = "KeyboardInterrupt" -> <<"\nCancelled.">>
      [] Handlers[h] = "Exception" -> <<"Unexpected error:", e.msg>>

(***************************************************************************)
(* The inputs of the model: command lines, typed lines, and what the two   *)
(* upstream endpoints may answer.                                          *)
(***************************************************************************)
Absent == [given |-> FALSE]
Given(v) == [given |-> TRUE, val |-> v]

Brno == <<"B", "r", "n", "o">>
CityTexts == {<<>>, <<" ">>, Brno, <<" ">> \o Brno \o <<" ">>}
CityArgs == {Absent} \cup {Given(s) : s \in CityTexts}

ForecastArgs ==
    {Absent} \cup {Given(n) : n \in {0 - 1, NoForecast, MinForecastDays,
                                       MaxForecastDays, MaxForecastDays + 1}}

DayTexts ==
    {<<>>, <<" ", " ">>, <<"5">>, <<" ", "1", "6">>, <<"1", "7">>,
     <<"-", "1">>, <<"a", "b", "c">>, <<"1", "_", "0">>}

\* input(): a line, or the interrupt / end of input raised in its place
Line(s) == [k |-> "line", text |-> s]
InputOutcomes(texts) ==
    {Line(s) : s \in texts} \cup {Failed("KeyboardInterrupt"), Failed("EOFError")}

StatusCodes == {200, 404, 500}
TransportFailures ==
    {"ConnectionError", "ConnectTimeout", "ReadTimeout", "KeyboardInterrupt"}

HttpOutcomes(datas) ==
    {Failed(c) : c \in TransportFailures}
        \cup {Response(st, Json(d)) : st \in StatusCodes, d \in datas}
        \cup {Response(st, NotJson) : st \in StatusCodes}

\* a JSON object with one more key
With(d, key, val) == d @@ (key :> val)
Meta == ("generationtime_ms" :> JFloat(7))

Prague ==
    [latitude |-> JFloat(501), longitude |-> JFloat(144),
     name |-> JStr("Prague")]
Vienna ==
    With([latitude |-> JFloat(482), longitude |-> JFloat(164),
          name |-> JStr("Vienna")], "admin1", JStr("Wien"))

GeocodeEntries ==
    LET regions == {Prague} \cup
                   {With(Prague, "admin1", a) :
                        a \in {JStr("Bohemia"), JStr(""), None}}
    IN regions
        \cup {With(e, "country_code", JStr("CZ")) : e \in regions}
        \cup {[latitude |-> JFloat(501), longitude |-> JFloat(144)],
              [longitude |-> JFloat(144), name |-> JStr("Prague")],
              [latitude |-> JFloat(501), name |-> JStr("Prague")]}

GeocodeDatas ==
    {Meta, With(Meta, "results", None), With(Meta, "results", JArr(<<>>)),
     With(Meta, "results", JArr(<<Vienna, Prague>>))}
        \cup {With(Meta, "results", JArr(<<e>>)) : e \in GeocodeEntries}

Overcast ==
    [temperature |-> JFloat(105), windspeed |-> JFloat(54),
     weathercode |-> JNum(3)]

CurrentSections ==
    {Overcast,
     [temperature |-> JFloat(0 - 20), windspeed |-> JFloat(120)],
     [temperature |-> JFloat(105), windspeed |-> JFloat(54),
      weathercode |-> None]}

CurrentDatas ==
    {Meta, ("foo" :> JStr("bar"))}
        \cup {With(Meta, "current_weather", c) : c \in CurrentSections}

\* day i of the upstream's answer; codes[i] is its weather code
Codes == {0, 3, 1234}
DateOf(i) == "2025-01-0" \o ToString(i)
DayKeys == <<"time">> \o DailyFields

DayValue(key, codes, i) ==
    CASE key = "time" -> DateOf(i)
      [] key = "weathercode" -> codes[i]
      [] key = "temperature_2m_max" -> 123 - 28 * i
      [] key = "temperature_2m_min" -> 32 - 45 * i
      [] key = "precipitation_sum" -> 12 * (i - 1)
      [] key = "windspeed_10m_max" -> 175 + 10 * i
      [] key = "winddirection_10m_dominant" -> 170 + 20 * i

\* a daily section whose list under key k has length len[k]
Section(len, codes) ==
    [k \in DOMAIN len |-> [i \in 1..len[k] |-> DayValue(k, codes, i)]]

KeySet == {DayKeys[n] : n \in 1..Len(DayKeys)}
EqualLengths(n) == [k \in KeySet |-> n]

\* the seven lists of equal length n, for every choice of weather codes
EqualSections ==
    UNION {{Section(EqualLengths(n), c) : c \in [1..n -> Codes]} :
              n \in 0..MaxDays}

\* one list shorter or longer than the others by one, or missing
UnequalSections ==
    UNION {{Section([EqualLengths(n) EXCEPT ![k] = m], [i \in 1..(n + 1) |-> 3]) :
                k \in KeySet, m \in {n - 1, n + 1}} : n \in 1..MaxDays}
        \cup {Section([k \in KeySet \ {gone} |-> MaxDays],
                      [i \in 1..MaxDays |-> 3]) : gone \in KeySet}

DailyArgs == EqualSections \cup UnequalSections

\* what the weather endpoint answers to main's forecast request
DailySections ==
    {Section(EqualLengths(n), [i \in 1..n |-> 3]) : n \in 0..MaxDays}
        \cup {Section([EqualLengths(MaxDays) EXCEPT !["weathercode"] = MaxDays - 1],
                      [i \in 1..MaxDays |-> 3])}

DailyDatas ==
    {Meta} \cup {With(Meta, "daily", d) : d \in DailySections}

Coordinates == {[lat |-> 501, lon |-> 144], [lat |-> 0, lon |-> 0]}
DaysArgs == (MinForecastDays - 2)..(MaxForecastDays + 2)

(***************************************************************************)
(* Initial states: the process is started on main with a command line, or  *)
(* one operation is called directly, as the unit tests do.                 *)
(***************************************************************************)
Entries ==
    {"main", "geocode_city", "get_current_weather", "get_daily_forecast",
     "print_forecast", "ask_forecast_days_interactively"}

CallArgs(e) ==
    CASE e = "main" -> {None}
      [] e = "geocode_city" -> {Strip(s) : s \in CityTexts}
      [] e = "get_current_weather" -> Coordinates
      [] e = "get_daily_forecast" ->
            {[lat |-> c.lat, lon |-> c.lon, days |-> n] :
                c \in Coordinates, n \in DaysArgs}
      [] e = "print_forecast" -> DailyArgs
      [] e = "ask_forecast_days_interactively" -> {None}

Init ==
    /\ entry \in Entries
    /\ pc = CASE entry = "main" -> "city"
              [] entry = "ask_forecast_days_interactively" -> "ask"
              [] OTHER -> "call"
    /\ argCity \in (IF entry = "main" THEN CityArgs ELSE {Absent})
    /\ argForecast \in (IF entry = "main" THEN ForecastArgs ELSE {Absent})
    /\ callArg \in CallArgs(entry)
    /\ city_input = <<>>
    /\ forecast_days = NoForecast
    /\ consumed = <<>>
    /\ loc = None
    /\ cw = None
    /\ daily = None
    /\ resp = NoResp
    /\ http = <<>>
    /\ dfCalls = <<>>
    /\ out = <<>>
    /\ exc = NoExc
    /\ result = NoExc

(***************************************************************************)
(* ask_forecast_days_interactively: one round of the loop per step.        *)
(***************************************************************************)
Ask ==
    /\ pc = "ask"
    /\ Len(consumed) < MaxPrompts
    /\ \E i \in InputOutcomes(DayTexts) :
          IF i.k = "raise"
          THEN /\ IF entry = "main"
                  THEN exc' = Raise(i.cls, "") /\ pc' = "except"
                       /\ UNCHANGED result
                  ELSE result' = Raise(i.cls, "") /\ pc' = "done"
                       /\ UNCHANGED exc
               /\ UNCHANGED <<consumed, out, forecast_days>>
          ELSE /\ consumed' = Append(consumed, i.text)
               /\ IF AskAccepts(i.text)
                  THEN /\ IF entry = "main"
                          THEN forecast_days' = IntOf(DaysStr(i.text))
                               /\ pc' = "geocode" /\ UNCHANGED result
                          ELSE result' = Ret(IntOf(DaysStr(i.text)))
                               /\ pc' = "done" /\ UNCHANGED forecast_days
                       /\ UNCHANGED out
                  ELSE /\ out' = Append(out, AskReminder)
                       /\ UNCHANGED <<pc, forecast_days, result>>
               /\ UNCHANGED exc
    /\ UNCHANGED <<entry, argCity, argForecast, city_input, callArg, loc, cw,
                   daily, resp, http, dfCalls>>

(***************************************************************************)
(* main                                                                    *)
(***************************************************************************)
\* if args.city: a non-empty --city value
CityGiven == argCity.given /\ argCity.val # <<>>

NoCityMessage == <<"No city entered. Exiting.">>
BadForecastMessage == <<"Error: --forecast must be between 0 and 16.">>

\* lines 175-181: the city from the command line, or from the prompt
Main_City ==
    /\ entry = "main" /\ pc = "city"
    /\ IF CityGiven
       THEN /\ city_input' = Strip(argCity.val)
            /\ pc' = "days"
            /\ UNCHANGED <<out, exc>>
       ELSE \E i \in InputOutcomes(CityTexts) :
              IF i.k = "raise"
              THEN /\ exc' = Raise(i.cls, "")
                   /\ pc' = "except"
                   /\ UNCHANGED <<city_input, out>>
              ELSE /\ city_input' = Strip(i.text)
                   /\ IF Strip(i.text) = <<>>
                      THEN out' = Append(out, NoCityMessage) /\ pc' = "done"
                      ELSE out' = out /\ pc' = "days"
                   /\ UNCHANGED exc
    /\ UNCHANGED <<entry, argCity, argForecast, forecast_days, consumed,
                   callArg, loc, cw, daily, resp, http, dfCalls, result>>

ForecastArgOk_WideRange(n) == NoForecast <= n /\ n <= MaxForecastDays + 1

\* the range check of --forecast
ForecastArgOk(n) == NoForecast <= n /\ n <= MaxForecastDays

\* lines 184-190: the day count from the command line, or from the prompt
Main_Days ==
    /\ entry = "main" /\ pc = "days"
    /\ IF ~argForecast.given
       THEN pc' = "ask" /\ UNCHANGED <<forecast_days, out>>
       ELSE IF ~ForecastArgOk(argForecast.val)
            THEN /\ out' = Append(out, BadForecastMessage)
                 /\ pc' = "done"
                 /\ UNCHANGED forecast_days
            ELSE /\ forecast_days' = argForecast.val
                 /\ pc' = "geocode"
                 /\ UNCHANGED out
    /\ UNCHANGED <<entry, argCity, argForecast, city_input, consumed, callArg,
                   loc, cw, daily, resp, http, dfCalls, exc, result>>

\* line 192
Main_Geocode ==
    /\ entry = "main" /\ pc = "geocode"
    /\ \E o \in HttpOutcomes(GeocodeDatas) :
          LET r == geocode_city(city_input, o) IN
          /\ http' = http \o r.http
          /\ resp' = o
          /\ IF r.outcome.kind = "raise"
             THEN exc' = r.outcome /\ pc' = "except" /\ UNCHANGED loc
             ELSE loc' = r.outcome.val /\ pc' = "current" /\ UNCHANGED exc
    /\ UNCHANGED <<entry, argCity, argForecast, city_input, forecast_days,
                   consumed, callArg, cw, daily, dfCalls, out, result>>

\* line 193
CityLabel(l) ==
    IF ~Truthy(l.cc) THEN l.name ELSE l.name \o " (" \o Str(l.cc) \o ")"

\* line 196
Main_Current ==
    /\ entry = "main" /\ pc = "current"
    /\ \E o \in HttpOutcomes(CurrentDatas) :
          LET r == get_current_weather(loc.lat, loc.lon, o) IN
          /\ http' = http \o r.http
          /\ resp' = o
          /\ IF r.outcome.kind = "raise"
             THEN exc' = r.outcome /\ pc' = "except" /\ UNCHANGED cw
             ELSE cw' = r.outcome.val /\ pc' = "print_current"
                  /\ UNCHANGED exc
    /\ UNCHANGED <<entry, argCity, argForecast, city_input, forecast_days,
                   consumed, callArg, loc, daily, dfCalls, out, result>>

WantsForecast_FromTwo(days) == days > NoForecast + 1

\* line 200: if forecast_days > 0
WantsForecast(days) == days > NoForecast

\* lines 197-200
Main_PrintCurrent ==
    /\ entry = "main" /\ pc = "print_current"
    /\ LET p == print_current(CityLabel(loc), loc.lat, loc.lon, cw) IN
       /\ out' = out \o p.out
       /\ IF p.outcome.kind = "raise"
          THEN exc' = p.outcome /\ pc' = "except"
          ELSE /\ pc' = IF WantsForecast(forecast_days) THEN "forecast"
                     ELSE "done"
               /\ UNCHANGED exc
    /\ UNCHANGED <<entry, argCity, argForecast, city_input, forecast_days,
                   consumed, callArg, loc, cw, daily, resp, http, dfCalls,
                   result>>

\* line 201
Main_Forecast ==
    /\ entry = "main" /\ pc = "forecast"
    /\ \E o \in HttpOutcomes(DailyDatas) :
          LET r == get_daily_forecast(loc.lat, loc.lon, forecast_days, o) IN
          /\ dfCalls' = Append(dfCalls, forecast_days)
          /\ http' = http \o r.http
          /\ resp' = IF r.http = <<>> THEN resp ELSE o
          /\ IF r.outcome.kind = "raise"
             THEN exc' = r.outcome /\ pc' = "except" /\ UNCHANGED daily
             ELSE daily' = r.outcome.val /\ pc' = "print_forecast"
                  /\ UNCHANGED exc
    /\ UNCHANGED <<entry, argCity, argForecast, city_input, forecast_days,
                   consumed, callArg, loc, cw, out, result>>

\* line 202
Main_PrintForecast ==
    /\ entry = "main" /\ pc = "print_forecast"
    /\ LET p == print_forecast(daily) IN
       /\ out' = out \o p.out
       /\ IF p.outcome.kind = "raise"
          THEN exc' = p.outcome /\ pc' = "except"
          ELSE pc' = "done" /\ UNCHANGED exc
    /\ UNCHANGED <<entry, argCity, argForecast, city_input, forecast_days,
                   consumed, callArg, loc, cw, daily, resp, http, dfCalls,
                   result>>

Main_Except_Retry ==
    /\ entry = "main" /\ pc = "except"
    /\ out' = Append(out, Diagnostic(exc))
    /\ pc' = IF HandlerFor(exc.cls) = 0 THEN "crashed"
             ELSE IF "Timeout" \in ExcBases(exc.cls) THEN "geocode"
             ELSE "done"
    /\ UNCHANGED <<entry, argCity, argForecast, city_input, forecast_days,
                   consumed, callArg, loc, cw, daily, resp, http, dfCalls,
                   exc, result>>

\* lines 204-215: the except clauses
Main_Except ==
    /\ entry = "main" /\ pc = "except"
    /\ out' = Append(out, Diagnostic(exc))
    /\ pc' = IF HandlerFor(exc.cls) = 0 THEN "crashed" ELSE "done"
    /\ UNCHANGED <<entry, argCity, argForecast, city_input, forecast_days,
                   consumed, callArg, loc, cw, daily, resp, http, dfCalls,
                   exc, result>>

(***************************************************************************)
(* Direct calls of the operations.                                         *)
(***************************************************************************)
Call_geocode_city ==
    /\ entry = "geocode_city" /\ pc = "call"
    /\ \E o \in HttpOutcomes(GeocodeDatas) :
          LET r == geocode_city(callArg, o) IN
          /\ http' = http \o r.http
          /\ resp' = o
          /\ result' = r.outcome
    /\ pc' = "done"
    /\ UNCHANGED <<entry, argCity, argForecast, city_input, forecast_days,
                   consumed, callArg, loc, cw, daily, dfCalls, out, exc>>

Call_get_current_weather ==
    /\ entry = "get_current_weather" /\ pc = "call"
    /\ \E o \in HttpOutcomes(CurrentDatas) :
          LET r == get_current_weather(callArg.lat, callArg.lon, o) IN
          /\ http' = http \o r.http
          /\ resp' = o
          /\ result' = r.outcome
    /\ pc' = "done"
    /\ UNCHANGED <<entry, argCity, argForecast, city_input, forecast_days,
                   consumed, callArg, loc, cw, daily, dfCalls, out, exc>>

Call_get_daily_forecast ==
    /\ entry = "get_daily_forecast" /\ pc = "call"
    /\ \E o \in HttpOutcomes(DailyDatas) :
          LET r == get_daily_forecast(callArg.lat, callArg.lon, callArg.days, o)
          IN
          /\ dfCalls' = Append(dfCalls, callArg.days)
          /\ http' = http \o r.http
          /\ resp' = IF r.http = <<>> THEN resp ELSE o
          /\ result' = r.outcome
    /\ pc' = "done"
    /\ UNCHANGED <<entry, argCity, argForecast, city_input, forecast_days,
                   consumed, callArg, loc, cw, daily, out, exc>>

Call_print_forecast ==
    /\ entry = "print_forecast" /\ pc = "call"
    /\ LET p == print_forecast(callArg) IN
       /\ out' = out \o p.out
       /\ result' = p.outcome
    /\ pc' = "done"
    /\ UNCHANGED <<entry, argCity, argForecast, city_input, forecast_days,
                   consumed, callArg, loc, cw, daily, resp, http, dfCalls,
                   exc>>

Next ==
    \/ Ask
    \/ Main_City
    \/ Main_Days
    \/ Main_Geocode
    \/ Main_Current
    \/ Main_PrintCurrent
    \/ Main_Forecast
    \/ Main_PrintForecast
    \/ Main_Except
    \/ Call_geocode_city
    \/ Call_get_current_weather
    \/ Call_get_daily_forecast
    \/ Call_print_forecast

Spec == Init /\ [][Next]_vars

(***************************************************************************)
(* Properties.                                                             *)
(***************************************************************************)
IsGeocodeRequest(r) == r.url = GEOCODE_URL
IsCurrentRequest(r) == "current_weather" \in DOMAIN r.params
IsDailyRequest(r) == "forecast_days" \in DOMAIN r.params
Issued(P(_)) == \E i \in 1..Len(http) : P(http[i])
BoundsError == Raise("ValueError", "Forecast days must be between 1 and 16.")
DirectDone(e) == entry = e /\ pc = "done"

\* C1: get_daily_forecast raises the bad-parameter ValueError for every
\* days < 1 and every days > 16 without issuing an HTTP request; for every
\* days in 1..16 the bounds check passes and exactly one request, asking for
\* that many days, is issued.
C1_DaysBounds ==
    DirectDone("get_daily_forecast") =>
        LET days == callArg.days IN
        /\ (days < 1 \/ days > 16) => result = BoundsError /\ http = <<>>
        /\ (1 <= days /\ days <= 16) =>
              /\ result # BoundsError
              /\ Len(http) = 1
              /\ IsDailyRequest(http[1])
              /\ http[1].params.forecast_days = days

C1_Witness ==
    /\ DirectDone("get_daily_forecast")
    /\ callArg.days = 17
    /\ result = BoundsError
    /\ http = <<>>

DiagnosticHeads ==
    {"HTTP error from API:",
     "Network error: please check your internet connection.",
     "Request timed out. Try again.", "Error:", "\nCancelled.",
     "Unexpected error:"}
IsDiagnostic(line) == line[1] \in DiagnosticHeads
DiagnosticsIn(lines) == {i \in 1..Len(lines) : IsDiagnostic(lines[i])}

\* C2: in main a failure raised while resolving the location or fetching or
\* printing the current conditions or the forecast goes to the top-level
\* handlers, which print exactly one diagnostic message after the output
\* already printed, issue no HTTP request, and end the session: no step
\* follows.
C2_FailureEndsSession ==
    [][entry = "main" =>
        /\ (exc = NoExc /\ exc' # NoExc) =>
              /\ pc' = "except"
              /\ DiagnosticsIn(out') = {}
              /\ SubSeq(out', 1, Len(out)) = out
        /\ pc = "except" =>
              /\ pc' = "done"
              /\ http' = http
              /\ dfCalls' = dfCalls
              /\ Len(out') = Len(out) + 1
              /\ SubSeq(out', 1, Len(out)) = out
              /\ DiagnosticsIn(out') = {Len(out')}
        /\ pc = "done" => FALSE]_vars

C2_Witness ==
    /\ entry = "main" /\ pc = "done"
    /\ exc.kind = "raise" /\ exc.cls = "IndexError"
    /\ Len(out) > Len(<<CurrentHeader>>) + 6
    /\ IsDiagnostic(out[Len(out)])

CurrentStepDone == \E i \in 1..Len(out) : out[i] = CurrentHeader

\* C3: in main, once the location is resolved the current-conditions
\* request is issued; the forecast request is issued only with a day count
\* above 0 and after the current conditions were fetched and printed, and a
\* session that ends has issued it exactly when both hold.
C3_ForecastOnlyIfAsked ==
    entry = "main" =>
        /\ (loc # None /\ pc # "current") => Issued(IsCurrentRequest)
        /\ Issued(IsDailyRequest) => forecast_days > 0 /\ CurrentStepDone
        /\ forecast_days = 0 => ~Issued(IsDailyRequest)
        /\ pc = "done" =>
              (Issued(IsDailyRequest) <=> forecast_days > 0 /\ CurrentStepDone)

C3_Witness ==
    /\ entry = "main" /\ pc = "done" /\ exc = NoExc
    /\ forecast_days = 0
    /\ CurrentStepDone
    /\ ~Issued(IsDailyRequest)

\* what the prompt makes of a line: an integer of 0..16, blank meaning 0
IsDayCount(line) ==
    \/ Strip(line) = <<>>
    \/ IsIntLiteral(line) /\ IntOf(line) \in 0..16
DayCount(line) == IF Strip(line) = <<>> THEN 0 ELSE IntOf(line)
Reminders == {i \in 1..Len(out) : out[i] = AskReminder}

\* C4: ask_forecast_days_interactively reads on after every line that is not
\* an integer of 0..16 (a blank line counting as 0), printing one reminder
\* for each, and returns the value of the first line that is one: no line
\* before the last one read is valid, and the value returned is that of the
\* last line read and lies in 0..16.
C4_FirstValid ==
    /\ \A i \in 1..(Len(consumed) - 1) : ~IsDayCount(consumed[i])
    /\ Cardinality(Reminders) =
          Cardinality({i \in 1..Len(consumed) : ~IsDayCount(consumed[i])})
    /\ (DirectDone("ask_forecast_days_interactively")
            /\ result.kind = "return") =>
          /\ consumed # <<>>
          /\ IsDayCount(consumed[Len(consumed)])
          /\ result.val = DayCount(consumed[Len(consumed)])
          /\ result.val \in 0..16
    /\ (entry = "main" /\ consumed # <<>> /\ pc # "ask" /\ exc = NoExc) =>
          /\ IsDayCount(consumed[Len(consumed)])
          /\ forecast_days = DayCount(consumed[Len(consumed)])

C4_Witness ==
    /\ DirectDone("ask_forecast_days_interactively")
    /\ Len(consumed) = 3
    /\ ~IsDayCount(consumed[1]) /\ ~IsDayCount(consumed[2])
    /\ consumed[3] = <<" ", "1", "6">>
    /\ result = Ret(16)

\* the decoded body of a response that passed raise_for_status
Succeeded == resp.k = "response" /\ resp.status = 200 /\ resp.body.json
TopEntry == resp.body.data["results"].v[1]
Populated ==
    /\ "results" \in DOMAIN resp.body.data
    /\ resp.body.data["results"].t = "arr"
    /\ resp.body.data["results"].v # <<>>
    /\ {"latitude", "longitude", "name"} \subseteq DOMAIN TopEntry
NotFound == Raise("ValueError", "City '{city}' not found.")
CountryCode(e) == IF "country_code" \in DOMAIN e THEN e["country_code"] ELSE None

\* C5 as stated: on a successful response geocode_city raises NotFound when
\* the results list is empty or absent, and otherwise returns the first
\* entry's coordinates and country code, with the display name "name,
\* admin1" whenever the entry has an admin1 key and name otherwise.
C5_AsStated ==
    (DirectDone("geocode_city") /\ Succeeded) =>
        /\ (~Populated /\ ResultsOf(resp.body.data) = <<>>) => result = NotFound
        /\ Populated =>
              /\ result.kind = "return"
              /\ result.val.lat = TopEntry["latitude"].v
              /\ result.val.lon = TopEntry["longitude"].v
              /\ result.val.cc = CountryCode(TopEntry)
              /\ result.val.name =
                    IF "admin1" \in DOMAIN TopEntry
                    THEN TopEntry["name"].v \o ", " \o Str(TopEntry["admin1"])
                    ELSE TopEntry["name"].v

HasRegion(e) ==
    "admin1" \in DOMAIN e /\ e["admin1"] # None /\ e["admin1"] # JStr("")

\* C5 amended: as stated, except that the display name is "name, admin1"
\* only when the entry's admin1 is present and neither null nor the empty
\* string, and name otherwise.
C5_DisplayName ==
    (DirectDone("geocode_city") /\ Succeeded) =>
        /\ (~Populated /\ ResultsOf(resp.body.data) = <<>>) => result = NotFound
        /\ Populated =>
              /\ result.kind = "return"
              /\ result.val.lat = TopEntry["latitude"].v
              /\ result.val.lon = TopEntry["longitude"].v
              /\ result.val.cc = CountryCode(TopEntry)
              /\ result.val.name =
                    IF HasRegion(TopEntry)
                    THEN TopEntry["name"].v \o ", " \o TopEntry["admin1"].v
                    ELSE TopEntry["name"].v

C5_Witness ==
    /\ DirectDone("geocode_city") /\ Succeeded /\ Populated
    /\ Len(resp.body.data["results"].v) = 2
    /\ result.kind = "return"
    /\ result.val.name = "Vienna, Wien"

HasJson == resp.k = "response" /\ resp.body.json
LacksCurrent == "current_weather" \notin DOMAIN resp.body.data
Malformed == Raise("ValueError", "Weather data missing from API response.")

\* C6 as stated: get_current_weather raises MalformedResponse whenever the
\* response JSON lacks the current_weather section, whatever the HTTP
\* status; with the section present on a successful response it returns the
\* section unchanged.
C6_AsStated ==
    (DirectDone("get_current_weather") /\ HasJson) =>
        /\ LacksCurrent => result = Malformed
        /\ (~LacksCurrent /\ resp.status = 200) =>
              result = Ret(resp.body.data["current_weather"])

\* C6 amended: get_current_weather raises MalformedResponse whenever a
\* response with a successful status lacks the current_weather section, and
\* returns the section unchanged when it is present; a response with a 4xx
\* or 5xx status raises HTTPError whether or not the section is present.
C6_MalformedOnSuccess ==
    (DirectDone("get_current_weather") /\ HasJson) =>
        /\ (LacksCurrent /\ resp.status = 200) => result = Malformed
        /\ (~LacksCurrent /\ resp.status = 200) =>
              result = Ret(resp.body.data["current_weather"])
        /\ resp.status \in {404, 500} =>
              result.kind = "raise" /\ result.cls = "HTTPError"

C6_Witness ==
    /\ DirectDone("get_current_weather") /\ HasJson
    /\ resp.status = 200 /\ LacksCurrent
    /\ result = Malformed

\* C7: when an HTTP call of the session times out, on connecting or on
\* reading, main ends with the Timeout message.
C7_TimeoutMessage ==
    (entry = "main" /\ pc = "done" /\ exc.kind = "raise"
        /\ exc.cls \in {"ConnectTimeout", "ReadTimeout"}) =>
        out[Len(out)] = <<"Request timed out. Try again.">>

\* C8: main passes geocode_city a non-empty city name: every geocoding
\* request of a session carries a non-empty name.
C8_CityNonEmpty ==
    entry = "main" =>
        \A i \in 1..Len(http) :
            IsGeocodeRequest(http[i]) => http[i].params.name # <<>>

BadForecastArg ==
    entry = "main" /\ argForecast.given
        /\ (argForecast.val < 0 \/ argForecast.val > 16)
DaysCallsInBounds == \A i \in 1..Len(dfCalls) : dfCalls[i] \in 1..16

\* C9 as stated: a --forecast argument outside 0..16 ends the session with
\* the BadParameter message and without any HTTP request, and main never
\* calls get_daily_forecast with days outside 1..16.
C9_AsStated ==
    /\ entry = "main" => DaysCallsInBounds
    /\ BadForecastArg =>
          /\ http = <<>>
          /\ pc = "done" => out[Len(out)] = BadForecastMessage

\* C9 amended: a --forecast argument outside 0..16 ends the session without
\* any HTTP request and without calling get_daily_forecast; the session
\* prints the BadParameter message (and nothing else) unless it ended at the
\* city prompt, where no --city was given and the prompt read an empty name
\* or failed.  Main never calls get_daily_forecast with days outside 1..16.
C9_BadForecastArg ==
    /\ entry = "main" => DaysCallsInBounds
    /\ BadForecastArg =>
          /\ http = <<>>
          /\ dfCalls = <<>>
          /\ pc \notin {"ask", "geocode", "current", "print_current",
                         "forecast", "print_forecast"}
          /\ (pc = "done" /\ (CityGiven \/ city_input # <<>>)) =>
                out = <<BadForecastMessage>>
          /\ (pc = "done" /\ ~(CityGiven \/ city_input # <<>>)) =>
                /\ Len(out) = 1
                /\ out[1] = NoCityMessage \/ IsDiagnostic(out[1])

C9_Witness ==
    /\ BadForecastArg /\ pc = "done"
    /\ argForecast.val = 17
    /\ city_input = Brno
    /\ out = <<BadForecastMessage>>
    /\ http = <<>>

EqualLength(d, n) ==
    /\ DOMAIN d = KeySet
    /\ \A k \in KeySet : Len(d[k]) = n
Has(line, piece) == \E j \in 1..Len(line) : line[j] = piece
Follows(line, label, value) ==
    \E j \in 1..(Len(line) - 1) : line[j] = label /\ line[j + 1] = value

\* C10: on a forecast whose seven lists all have length N print_forecast
\* prints the header and then exactly N lines, N being the length of the
\* time list; line i starts with date i, holds the description of weather
\* code i, and holds "min" followed by minimum i and "max" followed by
\* maximum i, then precipitation i, wind speed i and wind direction i.
C10_ForecastLines ==
    (DirectDone("print_forecast")
        /\ EqualLength(callArg, Len(callArg["time"]))) =>
        LET n == Len(callArg["time"]) IN
        /\ result = Ret(None)
        /\ Len(out) = n + 1
        /\ out[1] = ForecastHeader
        /\ \A i \in 1..n :
              LET line == out[i + 1]
                  code == callArg["weathercode"][i]
              IN
              /\ line[1] = callArg["time"][i]
              /\ Has(line, PadRight(IF code \in DOMAIN WEATHER_CODE_MAP
                                    THEN WEATHER_CODE_MAP[code]
                                    ELSE "Code " \o ToString(code), 28))
              /\ Follows(line, "min ",
                     PadLeft(Fixed1(callArg["temperature_2m_min"][i]), 5))
              /\ Follows(line, "max ",
                     PadLeft(Fixed1(callArg["temperature_2m_max"][i]), 5))
              /\ Follows(line, "prec ",
                     PadLeft(Fixed1(callArg["precipitation_sum"][i]), 4))
              /\ Follows(line, "wind ",
                     PadLeft(Fixed0(callArg["windspeed_10m_max"][i]), 4))
              /\ Follows(line, "dir ",
                     PadLeft(ToString(callArg["winddirection_10m_dominant"][i]),
                             3))

C10_Witness ==
    /\ DirectDone("print_forecast")
    /\ EqualLength(callArg, 2)
    /\ callArg["weathercode"] = <<3, 1234>>
    /\ Len(out) = 3

RequestKind(r) ==
    IF IsGeocodeRequest(r) THEN "geocode"
    ELSE IF IsCurrentRequest(r) THEN "current"
    ELSE IF IsDailyRequest(r) THEN "daily"
    ELSE "other"
SessionOrder == <<"geocode", "current", "daily">>
InSessionOrder(reqs) ==
    /\ Len(reqs) <= Len(SessionOrder)
    /\ \A i \in 1..Len(reqs) : RequestKind(reqs[i]) = SessionOrder[i]

\* C11: in a session of main the HTTP requests are issued in the order
\* geocoding, current conditions, forecast, each at most once, so at most
\* three; a step issues at most one request and only appends to those
\* issued; the current request is issued only after geocode_city returned a
\* location and the forecast request only after get_current_weather returned
\* a section; and once a failure of any class has been raised no request is
\* issued any more.
C11_CallOrder ==
    [][entry = "main" =>
        /\ InSessionOrder(http')
        /\ Len(http') <= Len(http) + 1
        /\ SubSeq(http', 1, Len(http)) = http
        /\ Len(http') >= 2 => loc' # None
        /\ Len(http') >= 3 => cw' # None
        /\ exc # NoExc => http' = http]_vars

C11_Witness ==
    /\ entry = "main" /\ pc = "done"
    /\ exc.kind = "raise" /\ exc.cls = "ReadTimeout"
    /\ Len(http) = 3
    /\ InSessionOrder(http)

====
